---- MODULE Spec2Model ----
(***************************************************************************)
(* The C-callable binding layer of src/libs/cimgui.cpp over the GUI        *)
(* library and its platform (GLFW) and renderer (OpenGL3) backends.        *)
(*                                                                         *)
(* The binding layer keeps no state.  What the model keeps is              *)
(*   - lib: the library's state as far as the calls made here reach it     *)
(*     (context, attached backends, frame counter, draw data);             *)
(*   - the record of the host's last invocation (lastOp), the library      *)
(*     calls that invocation made (calls), what the library returned       *)
(*     (libRet), what the wrapper returned (ret) and the text the library  *)
(*     formatted for it (drawn);                                           *)
(*   - the kind of host: one that keeps to the lifecycle (orderly) or one  *)
(*     that calls anything at any time;                                    *)
(*   - the host's position in the lifecycle (phase), whether it has kept   *)
(*     to the lifecycle with valid arguments (inOrder), whether it called  *)
(*     InitImgui once first and Shutdown once last (bracket), and          *)
(*     the frames it has completed in order (frames);                      *)
(*   - the input events the host handed to the shims (sent) and the ones   *)
(*     the platform backend's handlers received (events);                  *)
(*   - the current run of granular frame functions (gops, gacc, gstart).   *)
(*                                                                         *)
(* An invocation is recorded when it returns.  The library is modelled by  *)
(* the preconditions of the functions called here: a call that breaks one  *)
(* leaves its behaviour undefined (lib.defined = FALSE) from there on; a   *)
(* process the library aborts simply takes no further step.                *)
(***************************************************************************)
EXTENDS Integers, Sequences, FiniteSets, TLC

VARIABLES lib, lastOp, calls, ret, libRet, drawn, orderly, phase, inOrder,
          bracket, frames, sent, events, gops, gacc, gstart

vars == <<lib, lastOp, calls, ret, libRet, drawn, orderly, phase, inOrder,
          bracket, frames, sent, events, gops, gacc, gstart>>

(* Bounds of the model *)
MaxFrames == 2
MaxEvents == 2

(* ---------------------------------------------------------------------- *)
(* Values                                                                  *)
(* ---------------------------------------------------------------------- *)
Windows == {"w1", "w2"}
Labels == {"la", "lb"}
Ptrs == {"p1", "p2"}
Nums == {0, 1}
Bools == {"true", "false"}

GLSL_VERSION == "#version 130"

OUTER_SIZE == <<0, 0>>

INNER_WIDTH == 0

(* A library call as the library sees it: the function and its arguments. *)
Call(fn, params) == [fn |-> fn, params |-> params]

(* ---------------------------------------------------------------------- *)
(* The library, as far as the binding layer drives it                      *)
(* ---------------------------------------------------------------------- *)
(* ctx: live GUI contexts; window: the window the platform backend is      *)
(* attached to; glsl: the version string the renderer backend is attached  *)
(* with; fonts/display: the renderer/platform backend has prepared a       *)
(* frame; frameCount, inFrame: the frame state; drawData: the frame whose  *)
(* draw list was finalized last (0: none).  defined = FALSE: a call broke  *)
(* a precondition of the library, whose behaviour is undefined from there. *)
Pristine ==
  [defined |-> TRUE, ctx |-> 0, window |-> "none", glsl |-> "none",
   fonts |-> FALSE, display |-> FALSE,
   frameCount |-> 0, inFrame |-> FALSE, drawData |-> 0]

Undefined == [Pristine EXCEPT !.defined = FALSE]

(* The machine one wrapper invocation runs on: the library's state, the    *)
(* library calls made so far, the value the last call returned and the    *)
(* text formatted.                                                         *)
Enter(L) == [lib |-> L, calls |-> <<>>, rv |-> "void", text |-> <<>>]

LibStep(M, fn, params, pre, L2, rv) ==
  [lib   |-> IF M.lib.defined /\ pre THEN L2 ELSE Undefined,
   calls |-> Append(M.calls, Call(fn, params)),
   rv    |-> rv,
   text  |-> M.text]

IMGUI_CHECKVERSION(M) ==
  LibStep(M, "IMGUI_CHECKVERSION", <<>>, TRUE, M.lib, "void")

ImGui_CreateContext(M) ==
  LibStep(M, "ImGui::CreateContext", <<>>, TRUE,
          [M.lib EXCEPT !.ctx = @ + 1], "void")

ImGui_ImplGlfw_InitForOpenGL(M, window, install) ==
  LibStep(M, "ImGui_ImplGlfw_InitForOpenGL", <<window, install>>,
          M.lib.ctx = 1 /\ M.lib.window = "none",
          [M.lib EXCEPT !.window = window], "true")

ImGui_ImplOpenGL3_Init(M, glsl) ==
  LibStep(M, "ImGui_ImplOpenGL3_Init", <<glsl>>,
          M.lib.ctx = 1 /\ M.lib.glsl = "none",
          [M.lib EXCEPT !.glsl = glsl], "true")

ImGui_ImplOpenGL3_NewFrame(M) ==
  LibStep(M, "ImGui_ImplOpenGL3_NewFrame", <<>>,
          M.lib.ctx = 1 /\ M.lib.glsl # "none",
          [M.lib EXCEPT !.fonts = TRUE], "void")

ImGui_ImplGlfw_NewFrame(M) ==
  LibStep(M, "ImGui_ImplGlfw_NewFrame", <<>>,
          M.lib.ctx = 1 /\ M.lib.window # "none",
          [M.lib EXCEPT !.display = TRUE], "void")

ImGui_NewFrame(M) ==
  LibStep(M, "ImGui::NewFrame", <<>>,
          /\ M.lib.ctx = 1
          /\ M.lib.fonts /\ M.lib.display
          /\ ~M.lib.inFrame,
          [M.lib EXCEPT !.frameCount = @ + 1, !.inFrame = TRUE], "void")

ImGui_Render(M) ==
  LibStep(M, "ImGui::Render", <<>>,
          M.lib.ctx = 1 /\ M.lib.frameCount > 0,
          [M.lib EXCEPT !.inFrame = FALSE, !.drawData = M.lib.frameCount],
          "void")

(* Returns the draw data of the frame finalized last, or NULL (0). *)
ImGui_GetDrawData(M) ==
  LibStep(M, "ImGui::GetDrawData", <<>>, M.lib.ctx = 1, M.lib,
          IF M.lib.defined THEN M.lib.drawData ELSE 0)

ImGui_ImplOpenGL3_RenderDrawData(M, drawData) ==
  LibStep(M, "ImGui_ImplOpenGL3_RenderDrawData", <<drawData>>,
          M.lib.ctx = 1 /\ M.lib.glsl # "none" /\ drawData # 0,
          M.lib, "void")

ImGui_ImplOpenGL3_Shutdown(M) ==
  LibStep(M, "ImGui_ImplOpenGL3_Shutdown", <<>>,
          M.lib.ctx = 1 /\ M.lib.glsl # "none",
          [M.lib EXCEPT !.glsl = "none", !.fonts = FALSE], "void")

ImGui_ImplGlfw_Shutdown(M) ==
  LibStep(M, "ImGui_ImplGlfw_Shutdown", <<>>,
          M.lib.ctx = 1 /\ M.lib.window # "none",
          [M.lib EXCEPT !.window = "none", !.display = FALSE], "void")

ImGui_DestroyContext(M) ==
  LibStep(M, "ImGui::DestroyContext", <<>>,
          M.lib.ctx = 1,
          [M.lib EXCEPT !.ctx = @ - 1, !.frameCount = 0, !.inFrame = FALSE,
                        !.drawData = 0, !.fonts = FALSE, !.display = FALSE],
          "void")

(* A widget or layout call: needs a context and an open frame. *)
LibWidget(M, fn, params, rv) ==
  LibStep(M, fn, params, M.lib.ctx = 1 /\ M.lib.inFrame, M.lib, rv)

(* A platform-backend event handler: needs the backend attached. *)
LibHandler(M, fn, params) ==
  LibStep(M, fn, params, M.lib.ctx = 1 /\ M.lib.window # "none", M.lib, "void")

(* What a void wrapper hands back to the host. *)
Void(M) == [M EXCEPT !.rv = "void"]

(* ---------------------------------------------------------------------- *)
(* Lifecycle wrappers                                                      *)
(* ---------------------------------------------------------------------- *)
InitImgui_NoRenderer(M, window) ==
  Void(ImGui_ImplGlfw_InitForOpenGL(
         ImGui_CreateContext(IMGUI_CHECKVERSION(M)), window, "true"))

InitImgui(M, window) ==
  Void(ImGui_ImplOpenGL3_Init(
         ImGui_ImplGlfw_InitForOpenGL(
           ImGui_CreateContext(IMGUI_CHECKVERSION(M)), window, "true"),
         GLSL_VERSION))

NewFrame_LibraryFirst(M) ==
  Void(ImGui_ImplGlfw_NewFrame(ImGui_ImplOpenGL3_NewFrame(ImGui_NewFrame(M))))

NewFrame(M) ==
  Void(ImGui_NewFrame(ImGui_ImplGlfw_NewFrame(ImGui_ImplOpenGL3_NewFrame(M))))

Render_NoFinalize(M) ==
  LET d == ImGui_GetDrawData(M)
  IN  Void(ImGui_ImplOpenGL3_RenderDrawData(d, d.rv))

Render_StaleDrawData(M) ==
  LET d == ImGui_GetDrawData(M)
      r == ImGui_Render(d)
  IN  Void(ImGui_ImplOpenGL3_RenderDrawData(r, d.rv))

Render(M) ==
  LET r == ImGui_Render(M)
      d == ImGui_GetDrawData(r)
  IN  Void(ImGui_ImplOpenGL3_RenderDrawData(d, d.rv))

Shutdown_ContextFirst(M) ==
  Void(ImGui_ImplOpenGL3_Shutdown(ImGui_ImplGlfw_Shutdown(ImGui_DestroyContext(M))))

Shutdown_KeepContext(M) ==
  Void(ImGui_ImplGlfw_Shutdown(ImGui_ImplOpenGL3_Shutdown(M)))

Shutdown(M) ==
  Void(ImGui_DestroyContext(ImGui_ImplGlfw_Shutdown(ImGui_ImplOpenGL3_Shutdown(M))))

ImGuiCheckVersion(M) == Void(IMGUI_CHECKVERSION(M))

(* Granular frame functions of the header *)
ImGuiImplOpenGL3_NewFrame(M) == Void(ImGui_ImplOpenGL3_NewFrame(M))

ImGuiImplGlfw_NewFrame(M) == Void(ImGui_ImplGlfw_NewFrame(M))

ImGuiNewFrame(M) == Void(ImGui_NewFrame(M))

ImGuiRender(M) == Void(ImGui_Render(M))

ImGuiImplOpenGL3_RenderDrawData(M) ==
  LET d == ImGui_GetDrawData(M)
  IN  Void(ImGui_ImplOpenGL3_RenderDrawData(d, d.rv))

(* ---------------------------------------------------------------------- *)
(* Widget wrappers.  r is what the library returns for this call.          *)
(* ---------------------------------------------------------------------- *)
Button_Guarded(M, label, r) ==
  IF M.lib.ctx = 1 /\ M.lib.inFrame
    THEN LibWidget(M, "ImGui::Button", <<label>>, r)
    ELSE [M EXCEPT !.rv = "false"]

Button(M, label, r) == LibWidget(M, "ImGui::Button", <<label>>, r)

SliderFloat_SwappedRange(M, label, v, v_min, v_max, r) ==
  LibWidget(M, "ImGui::SliderFloat", <<label, v, v_max, v_min>>, r)

SliderFloat(M, label, v, v_min, v_max, r) ==
  LibWidget(M, "ImGui::SliderFloat", <<label, v, v_min, v_max>>, r)

ImGuiBeginGroup(M) == Void(LibWidget(M, "ImGui::BeginGroup", <<>>, "void"))

ImGuiEndGroup(M) == Void(LibWidget(M, "ImGui::EndGroup", <<>>, "void"))

CollapsingHeader(M, label, p_visible, flags, r) ==
  LibWidget(M, "ImGui::CollapsingHeader", <<label, p_visible, flags>>, r)

CollapsingHeaderStatic(M, label, flags, r) ==
  LibWidget(M, "ImGui::CollapsingHeader", <<label, flags>>, r)

RadioButton(M, label, active, r) ==
  LibWidget(M, "ImGui::RadioButton", <<label, active>>, r)

Checkbox(M, label, v, r) == LibWidget(M, "ImGui::Checkbox", <<label, v>>, r)

InputTextWithHint(M, label, hint, buf, buf_size, flags, callback, user_data, r) ==
  LibWidget(M, "ImGui::InputTextWithHint",
            <<label, hint, buf, buf_size, flags, callback, user_data>>, r)

InputText(M, label, buf, buf_size, flags, callback, user_data, r) ==
  LibWidget(M, "ImGui::InputText",
            <<label, buf, buf_size, flags, callback, user_data>>, r)

(* The text a format string, given as its pieces, produces: each           *)
(* conversion specification takes the next variadic argument.  One that    *)
(* finds no argument left reads an indeterminate value, g.                 *)
NSpecs(fmt, i) == Cardinality({j \in 1..i : fmt[j] = "%d"})

Format(fmt, va, g) ==
  [i \in 1..Len(fmt) |->
     IF fmt[i] # "%d" THEN fmt[i]
     ELSE IF NSpecs(fmt, i) <= Len(va) THEN va[NSpecs(fmt, i)]
     ELSE g]

LibText(M, fn, fixed, fmt, va, g) ==
  [LibWidget(M, fn, fixed \o <<fmt>> \o va, "void")
     EXCEPT !.text = Format(fmt, va, g)]

BulletText(M, fmt, va, g) ==
  Void(LibText(M, "ImGui::BulletText", <<>>, fmt, <<>>, g))

SameLine(M, offset_from_start_x, spacing) ==
  Void(LibWidget(M, "ImGui::SameLine", <<offset_from_start_x, spacing>>, "void"))

Text(M, fmt, va, g) == Void(LibText(M, "ImGui::Text", <<>>, fmt, <<>>, g))

TextColoredRGBA(M, r, g, b, a, fmt, va, x) ==
  LET col == <<r, g, b, a>>
  IN  Void(LibText(M, "ImGui::TextColored", <<col>>, fmt, <<>>, x))

DragFloat(M, label, v, v_speed, v_min, v_max, format, flags, r) ==
  LibWidget(M, "ImGui::DragFloat",
            <<label, v, v_speed, v_min, v_max, format, flags>>, r)

NewLine(M) == Void(LibWidget(M, "ImGui::NewLine", <<>>, "void"))

Separator(M) == Void(LibWidget(M, "ImGui::Separator", <<>>, "void"))

(* outer_size is dereferenced and handed on by reference: the library gets *)
(* the same object; a null outer_size is undefined behaviour.              *)
BeginTable(M, str_id, columns, flags, outer_size, inner_width, r) ==
  LET m == LibWidget(M, "ImGui::BeginTable",
                     <<str_id, columns, flags, outer_size, inner_width>>, r)
  IN  IF outer_size = "NULL" THEN [m EXCEPT !.lib = Undefined] ELSE m

BeginTable2(M, str_id, columns, flags, r) ==
  LibWidget(M, "ImGui::BeginTable",
            <<str_id, columns, flags, OUTER_SIZE, INNER_WIDTH>>, r)

EndTable(M) == Void(LibWidget(M, "ImGui::EndTable", <<>>, "void"))

TableNextRow(M, row_flags, min_row_height) ==
  Void(LibWidget(M, "ImGui::TableNextRow", <<row_flags, min_row_height>>, "void"))

TableNextColumn(M, r) == LibWidget(M, "ImGui::TableNextColumn", <<>>, r)

(* ---------------------------------------------------------------------- *)
(* Input-callback shims                                                    *)
(* ---------------------------------------------------------------------- *)
ImGui_MouseButtonCallback_Swapped(M, window, button, action, mods) ==
  Void(LibHandler(M, "ImGui_ImplGlfw_MouseButtonCallback",
                  <<window, button, mods, action>>))

ImGui_MouseButtonCallback(M, window, button, action, mods) ==
  Void(LibHandler(M, "ImGui_ImplGlfw_MouseButtonCallback",
                  <<window, button, action, mods>>))

ImGui_CursorPosCallback(M, window, x, y) ==
  Void(LibHandler(M, "ImGui_ImplGlfw_CursorPosCallback", <<window, x, y>>))

ImGui_KeyCallback(M, window, key, scancode, action, mods) ==
  Void(LibHandler(M, "ImGui_ImplGlfw_KeyCallback",
                  <<window, key, scancode, action, mods>>))

ImGui_ScrollCallback(M, window, xoffset, yoffset) ==
  Void(LibHandler(M, "ImGui_ImplGlfw_ScrollCallback",
                  <<window, xoffset, yoffset>>))

(* ---------------------------------------------------------------------- *)
(* The host                                                                *)
(* ---------------------------------------------------------------------- *)
GranularOps ==
  {"ImGuiImplOpenGL3_NewFrame", "ImGuiImplGlfw_NewFrame", "ImGuiNewFrame",
   "ImGuiRender", "ImGuiImplOpenGL3_RenderDrawData"}

BoolWidgetOps ==
  {"Button", "SliderFloat", "DragFloat", "Checkbox", "RadioButton",
   "CollapsingHeader", "CollapsingHeaderStatic", "InputText",
   "InputTextWithHint", "BeginTable", "BeginTable2", "TableNextColumn"}

TextOps == {"Text", "BulletText", "TextColoredRGBA"}

LayoutOps ==
  {"ImGuiBeginGroup", "ImGuiEndGroup", "SameLine", "NewLine", "Separator",
   "EndTable", "TableNextRow"}

WidgetOps == BoolWidgetOps \cup TextOps \cup LayoutOps

CallbackOps ==
  {"ImGui_MouseButtonCallback", "ImGui_CursorPosCallback",
   "ImGui_KeyCallback", "ImGui_ScrollCallback"}

HandlerFns ==
  {"ImGui_ImplGlfw_MouseButtonCallback", "ImGui_ImplGlfw_CursorPosCallback",
   "ImGui_ImplGlfw_KeyCallback", "ImGui_ImplGlfw_ScrollCallback"}

(* The conceptual lifecycle: where an operation leaves the host ... *)
PhaseAfter(name, ph) ==
  CASE name = "InitImgui" -> "Ready"
    [] name = "NewFrame"  -> "InFrame"
    [] name = "Render"    -> "Ready"
    [] name = "Shutdown"  -> "Terminal"
    [] OTHER              -> ph

(* ... and where the host may call it. *)
Legal(name, ph) ==
  CASE name = "InitImgui"         -> ph = "Uninitialized"
    [] name = "NewFrame"          -> ph = "Ready"
    [] name = "Render"            -> ph = "InFrame"
    [] name = "Shutdown"          -> ph = "Ready"
    [] name \in WidgetOps         -> ph = "InFrame"
    [] name \in CallbackOps       -> ph \in {"Ready", "InFrame"}
    [] name = "ImGuiCheckVersion" -> ph # "Terminal"
    [] OTHER                      -> FALSE

(* The pointers the host passes point to something. *)
ValidArgs(name, params) == name = "BeginTable" => params[4] # "NULL"

(* InitImgui once first, Shutdown once last. *)
BracketAfter(name, b) ==
  CASE b = "none" /\ name = "InitImgui" -> "open"
    [] b = "open" /\ name = "Shutdown"  -> "closed"
    [] b = "open" /\ name # "InitImgui" -> "open"
    [] OTHER                            -> "broken"

NewFrameRun ==
  <<"ImGuiImplOpenGL3_NewFrame", "ImGuiImplGlfw_NewFrame", "ImGuiNewFrame">>

RenderRun == <<"ImGuiRender", "ImGuiImplOpenGL3_RenderDrawData">>

IsPrefix(s, t) ==
  Len(s) <= Len(t) /\ \A i \in 1..Len(s) : s[i] = t[i]

InRun(s) == IsPrefix(s, NewFrameRun) \/ IsPrefix(s, RenderRun)

IsHandlerCall(c) == c.fn \in HandlerFns

(* One invocation of an exposed function by the host: out is the machine   *)
(* the wrapper leaves, r what the library returned to it.                  *)
Invoke(name, params, out, r) ==
  /\ orderly => Legal(name, phase) /\ ValidArgs(name, params)
  /\ UNCHANGED orderly
  /\ lib' = out.lib
  /\ calls' = out.calls
  /\ ret' = out.rv
  /\ libRet' = r
  /\ drawn' = out.text
  /\ lastOp' = [name |-> name, params |-> params]
  /\ phase' = PhaseAfter(name, phase)
  /\ inOrder' = (inOrder /\ Legal(name, phase) /\ ValidArgs(name, params))
  /\ bracket' = BracketAfter(name, bracket)
  /\ frames' = IF ~(inOrder /\ Legal(name, phase) /\ ValidArgs(name, params)) THEN 0
                ELSE IF name = "Render" THEN frames + 1
                ELSE frames
  /\ sent' = IF name \in CallbackOps
               THEN Append(sent, [name |-> name, params |-> params])
               ELSE sent
  /\ events' = events \o SelectSeq(out.calls, IsHandlerCall)
  /\ IF name \in GranularOps /\ InRun(Append(gops, name))
       THEN /\ gops' = Append(gops, name)
            /\ gacc' = gacc \o out.calls
            /\ gstart' = IF gops = <<>> THEN lib ELSE gstart
       ELSE IF name \in GranularOps /\ InRun(<<name>>)
       THEN /\ gops' = <<name>>
            /\ gacc' = out.calls
            /\ gstart' = lib
       ELSE /\ gops' = <<>>
            /\ gacc' = <<>>
            /\ gstart' = Pristine

Start ==
  /\ lib = Pristine
  /\ lastOp = [name |-> "none", params |-> <<>>]
  /\ calls = <<>>
  /\ ret = "void"
  /\ libRet = "void"
  /\ drawn = <<>>
  /\ phase = "Uninitialized"
  /\ inOrder = TRUE
  /\ bracket = "none"
  /\ frames = 0
  /\ sent = <<>>
  /\ events = <<>>
  /\ gops = <<>>
  /\ gacc = <<>>
  /\ gstart = Pristine

Init == Start /\ orderly = FALSE

InitOrderly == Start /\ orderly = TRUE

(* Lifecycle *)
Host_InitImgui(window) ==
  Invoke("InitImgui", <<window>>, InitImgui(Enter(lib), window), "void")

Host_NewFrame ==
  /\ lib.frameCount < MaxFrames
  /\ Invoke("NewFrame", <<>>, NewFrame(Enter(lib)), "void")

Host_Render == Invoke("Render", <<>>, Render(Enter(lib)), "void")

Host_Shutdown == Invoke("Shutdown", <<>>, Shutdown(Enter(lib)), "void")

Host_ImGuiCheckVersion ==
  Invoke("ImGuiCheckVersion", <<>>, ImGuiCheckVersion(Enter(lib)), "void")

Host_ImGuiImplOpenGL3_NewFrame ==
  Invoke("ImGuiImplOpenGL3_NewFrame", <<>>,
         ImGuiImplOpenGL3_NewFrame(Enter(lib)), "void")

Host_ImGuiImplGlfw_NewFrame ==
  Invoke("ImGuiImplGlfw_NewFrame", <<>>, ImGuiImplGlfw_NewFrame(Enter(lib)), "void")

Host_ImGuiNewFrame ==
  /\ lib.frameCount < MaxFrames
  /\ Invoke("ImGuiNewFrame", <<>>, ImGuiNewFrame(Enter(lib)), "void")

Host_ImGuiRender == Invoke("ImGuiRender", <<>>, ImGuiRender(Enter(lib)), "void")

Host_ImGuiImplOpenGL3_RenderDrawData ==
  Invoke("ImGuiImplOpenGL3_RenderDrawData", <<>>,
         ImGuiImplOpenGL3_RenderDrawData(Enter(lib)), "void")

(* Widgets returning the library's boolean *)
Host_Button(label, r) ==
  Invoke("Button", <<label>>, Button(Enter(lib), label, r), r)

Host_SliderFloat(label, v, v_min, v_max, r) ==
  Invoke("SliderFloat", <<label, v, v_min, v_max>>,
         SliderFloat(Enter(lib), label, v, v_min, v_max, r), r)

Host_CollapsingHeader(label, p_visible, flags, r) ==
  Invoke("CollapsingHeader", <<label, p_visible, flags>>,
         CollapsingHeader(Enter(lib), label, p_visible, flags, r), r)

Host_CollapsingHeaderStatic(label, flags, r) ==
  Invoke("CollapsingHeaderStatic", <<label, flags>>,
         CollapsingHeaderStatic(Enter(lib), label, flags, r), r)

Host_RadioButton(label, active, r) ==
  Invoke("RadioButton", <<label, active>>,
         RadioButton(Enter(lib), label, active, r), r)

Host_Checkbox(label, v, r) ==
  Invoke("Checkbox", <<label, v>>, Checkbox(Enter(lib), label, v, r), r)

Host_InputTextWithHint(label, hint, buf, buf_size, flags, callback, user_data, r) ==
  Invoke("InputTextWithHint",
         <<label, hint, buf, buf_size, flags, callback, user_data>>,
         InputTextWithHint(Enter(lib), label, hint, buf, buf_size, flags,
                           callback, user_data, r), r)

Host_InputText(label, buf, buf_size, flags, callback, user_data, r) ==
  Invoke("InputText", <<label, buf, buf_size, flags, callback, user_data>>,
         InputText(Enter(lib), label, buf, buf_size, flags, callback,
                   user_data, r), r)

Host_DragFloat(label, v, v_speed, v_min, v_max, format, flags, r) ==
  Invoke("DragFloat", <<label, v, v_speed, v_min, v_max, format, flags>>,
         DragFloat(Enter(lib), label, v, v_speed, v_min, v_max, format,
                   flags, r), r)

Host_BeginTable(str_id, columns, flags, outer_size, inner_width, r) ==
  Invoke("BeginTable", <<str_id, columns, flags, outer_size, inner_width>>,
         BeginTable(Enter(lib), str_id, columns, flags, outer_size,
                    inner_width, r), r)

Host_BeginTable2(str_id, columns, flags, r) ==
  Invoke("BeginTable2", <<str_id, columns, flags>>,
         BeginTable2(Enter(lib), str_id, columns, flags, r), r)

Host_TableNextColumn(r) ==
  Invoke("TableNextColumn", <<>>, TableNextColumn(Enter(lib), r), r)

(* Text output: fmt and the variadic arguments va the host passes; g is    *)
(* the value an argument the library misses reads as.                      *)
Host_Text(fmt, va, g) ==
  Invoke("Text", <<fmt, va>>, Text(Enter(lib), fmt, va, g), "void")

Host_BulletText(fmt, va, g) ==
  Invoke("BulletText", <<fmt, va>>, BulletText(Enter(lib), fmt, va, g), "void")

Host_TextColoredRGBA(r, g, b, a, fmt, va, x) ==
  Invoke("TextColoredRGBA", <<r, g, b, a, fmt, va>>,
         TextColoredRGBA(Enter(lib), r, g, b, a, fmt, va, x), "void")

(* Layout *)
Host_ImGuiBeginGroup ==
  Invoke("ImGuiBeginGroup", <<>>, ImGuiBeginGroup(Enter(lib)), "void")

Host_ImGuiEndGroup ==
  Invoke("ImGuiEndGroup", <<>>, ImGuiEndGroup(Enter(lib)), "void")

Host_SameLine(offset_from_start_x, spacing) ==
  Invoke("SameLine", <<offset_from_start_x, spacing>>,
         SameLine(Enter(lib), offset_from_start_x, spacing), "void")

Host_NewLine == Invoke("NewLine", <<>>, NewLine(Enter(lib)), "void")

Host_Separator == Invoke("Separator", <<>>, Separator(Enter(lib)), "void")

Host_EndTable == Invoke("EndTable", <<>>, EndTable(Enter(lib)), "void")

Host_TableNextRow(row_flags, min_row_height) ==
  Invoke("TableNextRow", <<row_flags, min_row_height>>,
         TableNextRow(Enter(lib), row_flags, min_row_height), "void")

(* Input events *)
Host_MouseButtonCallback(window, button, action, mods) ==
  /\ Len(sent) < MaxEvents
  /\ Invoke("ImGui_MouseButtonCallback", <<window, button, action, mods>>,
            ImGui_MouseButtonCallback(Enter(lib), window, button, action, mods),
            "void")

Host_CursorPosCallback(window, x, y) ==
  /\ Len(sent) < MaxEvents
  /\ Invoke("ImGui_CursorPosCallback", <<window, x, y>>,
            ImGui_CursorPosCallback(Enter(lib), window, x, y), "void")

Host_KeyCallback(window, key, scancode, action, mods) ==
  /\ Len(sent) < MaxEvents
  /\ Invoke("ImGui_KeyCallback", <<window, key, scancode, action, mods>>,
            ImGui_KeyCallback(Enter(lib), window, key, scancode, action, mods),
            "void")

Host_ScrollCallback(window, xoffset, yoffset) ==
  /\ Len(sent) < MaxEvents
  /\ Invoke("ImGui_ScrollCallback", <<window, xoffset, yoffset>>,
            ImGui_ScrollCallback(Enter(lib), window, xoffset, yoffset), "void")

(* ---------------------------------------------------------------------- *)
(* What the host may call, over the argument values it draws from          *)
(* ---------------------------------------------------------------------- *)
(* Format strings, as their pieces, and variadic argument lists *)
Formats == {<<"text">>, <<"n=", "%d">>, <<"%d", "%d">>}

VarArgs == {<<>>, <<1>>, <<1, 0>>}

(* Values an argument that was never passed may read as *)
Indeterminate == {0, 7}

(* Event arguments: n integers, at most one of them nonzero, the nonzero   *)
(* one at a position of K                                                  *)
EventArgs(n, K) ==
  {[i \in 1..n |-> IF i = k THEN 1 ELSE 0] : k \in K \cap (0..n)}

Lifecycle(W) ==
  \/ \E window \in W : Host_InitImgui(window)
  \/ Host_NewFrame
  \/ Host_Render
  \/ Host_Shutdown
  \/ Host_ImGuiCheckVersion

Granular ==
  \/ Host_ImGuiImplOpenGL3_NewFrame
  \/ Host_ImGuiImplGlfw_NewFrame
  \/ Host_ImGuiNewFrame
  \/ Host_ImGuiRender
  \/ Host_ImGuiImplOpenGL3_RenderDrawData

BoolWidgets(L, P, N) ==
  \E r \in Bools :
    \/ \E label \in L : Host_Button(label, r)
    \/ \E label \in L, v \in P, v_min, v_max \in N :
         Host_SliderFloat(label, v, v_min, v_max, r)
    \/ \E label \in L, p_visible \in P, flags \in N :
         Host_CollapsingHeader(label, p_visible, flags, r)
    \/ \E label \in L, flags \in N : Host_CollapsingHeaderStatic(label, flags, r)
    \/ \E label \in L, active \in Bools : Host_RadioButton(label, active, r)
    \/ \E label \in L, v \in P : Host_Checkbox(label, v, r)
    \/ \E label, hint \in L, buf, callback, user_data \in P, buf_size, flags \in N :
         Host_InputTextWithHint(label, hint, buf, buf_size, flags, callback,
                                user_data, r)
    \/ \E label \in L, buf, callback, user_data \in P, buf_size, flags \in N :
         Host_InputText(label, buf, buf_size, flags, callback, user_data, r)
    \/ \E label, format \in L, v \in P, v_speed, v_min, v_max, flags \in N :
         Host_DragFloat(label, v, v_speed, v_min, v_max, format, flags, r)
    \/ \E str_id \in L, columns, flags, inner_width \in N,
          outer_size \in P \cup {"NULL"} :
         Host_BeginTable(str_id, columns, flags, outer_size, inner_width, r)
    \/ \E str_id \in L, columns, flags \in N :
         Host_BeginTable2(str_id, columns, flags, r)
    \/ Host_TableNextColumn(r)

TextWidgets(F, V, N) ==
  \E fmt \in F, va \in V, x \in Indeterminate :
    \/ Host_Text(fmt, va, x)
    \/ Host_BulletText(fmt, va, x)
    \/ \E r, g, b, a \in N : Host_TextColoredRGBA(r, g, b, a, fmt, va, x)

Layout(N) ==
  \/ Host_ImGuiBeginGroup
  \/ Host_ImGuiEndGroup
  \/ \E x, spacing \in N : Host_SameLine(x, spacing)
  \/ Host_NewLine
  \/ Host_Separator
  \/ Host_EndTable
  \/ \E row_flags, min_row_height \in N : Host_TableNextRow(row_flags, min_row_height)

Callbacks(W, K) ==
  \E window \in W :
    \/ \E e \in EventArgs(3, K) :
         Host_MouseButtonCallback(window, e[1], e[2], e[3])
    \/ \E e \in EventArgs(2, K) : Host_CursorPosCallback(window, e[1], e[2])
    \/ \E e \in EventArgs(4, K) : Host_KeyCallback(window, e[1], e[2], e[3], e[4])
    \/ \E e \in EventArgs(2, K) : Host_ScrollCallback(window, e[1], e[2])

(* Any host: every exposed function, in any order, in any state. *)
Next ==
  \/ Lifecycle({"w1"})
  \/ Granular
  \/ BoolWidgets({"la"}, {"p1"}, {1})
  \/ TextWidgets({<<"n=", "%d">>}, {<<>>, <<1>>}, {1})
  \/ Layout({1})
  \/ Callbacks({"w1"}, {1})

Spec == Init /\ [][Next]_vars

(* A host that keeps to the lifecycle, opens a frame and calls the widgets *)
(* with every combination of argument values.                              *)
WidgetNext ==
  \/ Host_InitImgui("w1")
  \/ Host_NewFrame
  \/ BoolWidgets(Labels, Ptrs, Nums)
  \/ TextWidgets(Formats, VarArgs, Nums)
  \/ Layout(Nums)

WidgetSpec == InitOrderly /\ [][WidgetNext]_vars

(* A host that keeps to the lifecycle and hands input events to the shims. *)
InputNext ==
  \/ \E window \in Windows : Host_InitImgui(window)
  \/ Host_Shutdown
  \/ Callbacks(Windows, 0..4)

InputSpec == InitOrderly /\ [][InputNext]_vars

(* ---------------------------------------------------------------------- *)
(* Properties                                                              *)
(* ---------------------------------------------------------------------- *)
Fns(cs) == [i \in 1..Len(cs) |-> cs[i].fn]

Reverse(q) == [i \in 1..Len(q) |-> q[Len(q) + 1 - i]]

(* The resource a library call creates or attaches, or tears down. *)
Acquires(fn) ==
  CASE fn = "ImGui::CreateContext"         -> "context"
    [] fn = "ImGui_ImplGlfw_InitForOpenGL" -> "platform"
    [] fn = "ImGui_ImplOpenGL3_Init"       -> "renderer"
    [] OTHER                               -> "nothing"

Releases(fn) ==
  CASE fn = "ImGui::DestroyContext"      -> "context"
    [] fn = "ImGui_ImplGlfw_Shutdown"    -> "platform"
    [] fn = "ImGui_ImplOpenGL3_Shutdown" -> "renderer"
    [] OTHER                             -> "nothing"

IsAcquired(r) == r # "nothing"

AcquireOrder(cs) == SelectSeq([i \in 1..Len(cs) |-> Acquires(cs[i].fn)], IsAcquired)

ReleaseOrder(cs) == SelectSeq([i \in 1..Len(cs) |-> Releases(cs[i].fn)], IsAcquired)

Attached == lib.ctx = 1 /\ lib.window # "none" /\ lib.glsl = "#version 130"

(* C1: every call of NewFrame() makes exactly three library calls, the     *)
(* renderer backend's new-frame, then the platform backend's, then the GUI *)
(* library's, and no other.                                                *)
C1_NewFrameOrder ==
  lastOp.name = "NewFrame" =>
    calls = << Call("ImGui_ImplOpenGL3_NewFrame", <<>>),
               Call("ImGui_ImplGlfw_NewFrame", <<>>),
               Call("ImGui::NewFrame", <<>>) >>

C1_Witness ==
  lastOp.name = "NewFrame" /\ lib.defined /\ lib.inFrame /\ lib.frameCount = 2

(* C2: Shutdown() tears down the rendering backend, then the platform      *)
(* backend, then the GUI context, the reverse of the order in which        *)
(* InitImgui() creates the context, attaches the platform backend and      *)
(* attaches the rendering backend.                                         *)
C2_ShutdownReversesInit ==
  /\ lastOp.name = "Shutdown" =>
       /\ calls = << Call("ImGui_ImplOpenGL3_Shutdown", <<>>),
                     Call("ImGui_ImplGlfw_Shutdown", <<>>),
                     Call("ImGui::DestroyContext", <<>>) >>
       /\ ReleaseOrder(calls)
            = Reverse(AcquireOrder(InitImgui(Enter(Pristine), "w1").calls))
  /\ lastOp.name = "InitImgui" =>
       AcquireOrder(calls) = <<"context", "platform", "renderer">>

C2_Witness ==
  lastOp.name = "Shutdown" /\ inOrder /\ lib = Pristine /\ frames >= 1

(* C3: InitImgui(window) checks the version, creates the context, attaches *)
(* the platform backend to the given window and the rendering backend with *)
(* "#version 130"; so for a host that calls InitImgui once first and       *)
(* Shutdown once last, whenever a NewFrame, Render or widget call reaches  *)
(* the library while its behaviour is defined, the context exists and both *)
(* backends are attached; and for a host that keeps to the lifecycle the   *)
(* library's behaviour stays defined.                                      *)
C3_InitAttachesBeforeFrames ==
  /\ lastOp.name = "InitImgui" =>
       calls = << Call("IMGUI_CHECKVERSION", <<>>),
                  Call("ImGui::CreateContext", <<>>),
                  Call("ImGui_ImplGlfw_InitForOpenGL", <<lastOp.params[1], "true">>),
                  Call("ImGui_ImplOpenGL3_Init", <<"#version 130">>) >>
  /\ ( /\ bracket = "open"
       /\ lastOp.name \in {"NewFrame", "Render"} \cup WidgetOps \cup GranularOps
       /\ lib.defined )
       => Attached
  /\ ( /\ inOrder
       /\ lastOp.name \in {"NewFrame", "Render"} \cup WidgetOps )
       => lib.defined /\ Attached

C3_Witness ==
  /\ bracket = "open" /\ inOrder
  /\ lastOp.name = "Button"
  /\ Attached /\ lib.inFrame

(* C4: for a host that keeps to the lifecycle, after any number of         *)
(* complete frames the library's state after Shutdown is the one of no     *)
(* frame at all: no context, no backend attached; there is never more than *)
(* one live context.                                                       *)
C4_NoLeakAfterShutdown ==
  inOrder =>
    /\ lib.defined
    /\ lib.ctx <= 1
    /\ phase \in {"Uninitialized", "Terminal"} => lib = Pristine
    /\ phase \in {"Ready", "InFrame"} => Attached

C4_Witness ==
  inOrder /\ phase = "Terminal" /\ frames = 2 /\ lib = Pristine

(* C5: every call of Render() first finalizes the frame's draw list and    *)
(* then submits draw data to the rendering backend, each once, and what it *)
(* submits is the draw data of the frame it has just finalized.            *)
C5_RenderSubmitsOwnFrame ==
  lastOp.name = "Render" =>
    /\ Fns(calls) = <<"ImGui::Render", "ImGui::GetDrawData",
                      "ImGui_ImplOpenGL3_RenderDrawData">>
    /\ lib.defined =>
         /\ lib.frameCount > 0
         /\ lib.drawData = lib.frameCount
         /\ calls[3].params = <<lib.frameCount>>

C5_Witness ==
  lastOp.name = "Render" /\ lib.defined /\ lib.drawData = 2 /\ inOrder

(* The call the library would get from a direct call of the text function  *)
(* with the same format and the same variadic arguments.                   *)
DirectText(op) ==
  CASE op.name = "Text" ->
         Call("ImGui::Text", <<op.params[1]>> \o op.params[2])
    [] op.name = "BulletText" ->
         Call("ImGui::BulletText", <<op.params[1]>> \o op.params[2])
    [] op.name = "TextColoredRGBA" ->
         Call("ImGui::TextColored",
              << <<op.params[1], op.params[2], op.params[3], op.params[4]>>,
                 op.params[5] >> \o op.params[6])

(* C6: Text, BulletText and TextColoredRGBA make the call on the library   *)
(* that a direct call with the same format string and the same variadic    *)
(* arguments makes.                                                        *)
C6_TextForwardsVarArgs ==
  lastOp.name \in TextOps => calls = <<DirectText(lastOp)>>

(* The library function a value-returning wrapper stands for. *)
DirectFn(name) ==
  CASE name = "Button"                 -> "ImGui::Button"
    [] name = "SliderFloat"            -> "ImGui::SliderFloat"
    [] name = "DragFloat"              -> "ImGui::DragFloat"
    [] name = "Checkbox"               -> "ImGui::Checkbox"
    [] name = "RadioButton"            -> "ImGui::RadioButton"
    [] name = "CollapsingHeader"       -> "ImGui::CollapsingHeader"
    [] name = "CollapsingHeaderStatic" -> "ImGui::CollapsingHeader"
    [] name = "InputText"              -> "ImGui::InputText"
    [] name = "InputTextWithHint"      -> "ImGui::InputTextWithHint"
    [] name = "BeginTable"             -> "ImGui::BeginTable"
    [] name = "BeginTable2"            -> "ImGui::BeginTable"
    [] name = "TableNextColumn"        -> "ImGui::TableNextColumn"

(* C7: a value-returning widget wrapper calls its library function once    *)
(* with every argument unchanged and returns the boolean the library       *)
(* returned; BeginTable2 adds outer size (0,0) and inner width 0.          *)
C7_WidgetsForwardUnchanged ==
  lastOp.name \in BoolWidgetOps =>
    /\ calls = << Call(DirectFn(lastOp.name),
                       IF lastOp.name = "BeginTable2"
                         THEN lastOp.params \o << <<0, 0>>, 0 >>
                         ELSE lastOp.params) >>
    /\ ret = libRet
    /\ ret \in Bools

C7_Witness ==
  /\ lastOp = [name |-> "SliderFloat", params |-> <<"lb", "p2", 0, 1>>]
  /\ ret = "true" /\ lib.defined

(* The platform backend's handler a shim stands for. *)
HandlerOf(name) ==
  CASE name = "ImGui_MouseButtonCallback" -> "ImGui_ImplGlfw_MouseButtonCallback"
    [] name = "ImGui_CursorPosCallback"   -> "ImGui_ImplGlfw_CursorPosCallback"
    [] name = "ImGui_KeyCallback"         -> "ImGui_ImplGlfw_KeyCallback"
    [] name = "ImGui_ScrollCallback"      -> "ImGui_ImplGlfw_ScrollCallback"

(* C8: the platform backend's handlers receive one event for each shim     *)
(* invocation, with the same window handle and the same tuple in the same  *)
(* argument order, in the order of the invocations.                        *)
C8_EventsForwardedInOrder ==
  /\ Len(events) = Len(sent)
  /\ \A i \in 1..Len(sent) :
       events[i] = Call(HandlerOf(sent[i].name), sent[i].params)
  /\ lastOp.name \in CallbackOps => calls = <<events[Len(events)]>>

C8_Witness ==
  /\ Len(events) = 2
  /\ sent[1] = [name |-> "ImGui_KeyCallback", params |-> <<"w2", 0, 0, 1, 0>>]
  /\ sent[2] = [name |-> "ImGui_MouseButtonCallback", params |-> <<"w1", 0, 1, 0>>]

(* The library functions each exposed function forwards to. *)
ForwardsTo(name) ==
  CASE name = "InitImgui" ->
         <<"IMGUI_CHECKVERSION", "ImGui::CreateContext",
           "ImGui_ImplGlfw_InitForOpenGL", "ImGui_ImplOpenGL3_Init">>
    [] name = "NewFrame" ->
         <<"ImGui_ImplOpenGL3_NewFrame", "ImGui_ImplGlfw_NewFrame", "ImGui::NewFrame">>
    [] name = "Render" ->
         <<"ImGui::Render", "ImGui::GetDrawData", "ImGui_ImplOpenGL3_RenderDrawData">>
    [] name = "Shutdown" ->
         <<"ImGui_ImplOpenGL3_Shutdown", "ImGui_ImplGlfw_Shutdown",
           "ImGui::DestroyContext">>
    [] name = "ImGuiCheckVersion" -> <<"IMGUI_CHECKVERSION">>
    [] name = "ImGuiImplOpenGL3_NewFrame" -> <<"ImGui_ImplOpenGL3_NewFrame">>
    [] name = "ImGuiImplGlfw_NewFrame" -> <<"ImGui_ImplGlfw_NewFrame">>
    [] name = "ImGuiNewFrame" -> <<"ImGui::NewFrame">>
    [] name = "ImGuiRender" -> <<"ImGui::Render">>
    [] name = "ImGuiImplOpenGL3_RenderDrawData" ->
         <<"ImGui::GetDrawData", "ImGui_ImplOpenGL3_RenderDrawData">>
    [] name \in BoolWidgetOps -> <<DirectFn(name)>>
    [] name \in CallbackOps -> <<HandlerOf(name)>>
    [] name = "Text" -> <<"ImGui::Text">>
    [] name = "BulletText" -> <<"ImGui::BulletText">>
    [] name = "TextColoredRGBA" -> <<"ImGui::TextColored">>
    [] name = "ImGuiBeginGroup" -> <<"ImGui::BeginGroup">>
    [] name = "ImGuiEndGroup" -> <<"ImGui::EndGroup">>
    [] name = "SameLine" -> <<"ImGui::SameLine">>
    [] name = "NewLine" -> <<"ImGui::NewLine">>
    [] name = "Separator" -> <<"ImGui::Separator">>
    [] name = "EndTable" -> <<"ImGui::EndTable">>
    [] name = "TableNextRow" -> <<"ImGui::TableNextRow">>

(* C9: the layer has no guards and no state: in every state of the         *)
(* lifecycle, in order or not, a call of an exposed function makes the     *)
(* library calls of that function, all of them, and hands back the         *)
(* library's value or nothing, never a value of its own.                   *)
C9_NoGuardsNoState ==
  lastOp.name # "none" =>
    /\ Fns(calls) = ForwardsTo(lastOp.name)
    /\ ret = IF lastOp.name \in BoolWidgetOps THEN libRet ELSE "void"

C9_Witness ==
  /\ phase = "Terminal" /\ ~inOrder /\ ~lib.defined
  /\ lastOp.name = "Button"
  /\ calls = <<Call("ImGui::Button", <<"la">>)>>
  /\ ret = "true"

(* C10: the granular functions of the header, called in the order          *)
(* ImGuiImplOpenGL3_NewFrame, ImGuiImplGlfw_NewFrame, ImGuiNewFrame, make  *)
(* the library calls of one NewFrame() and leave the library where it      *)
(* leaves it; ImGuiRender, ImGuiImplOpenGL3_RenderDrawData do so for one   *)
(* Render().                                                               *)
C10_GranularEqualsComposite ==
  /\ gops = NewFrameRun =>
       /\ gacc = NewFrame(Enter(gstart)).calls
       /\ lib = NewFrame(Enter(gstart)).lib
  /\ gops = RenderRun =>
       /\ gacc = Render(Enter(gstart)).calls
       /\ lib = Render(Enter(gstart)).lib

C10_Witness ==
  /\ gops = RenderRun /\ lib.defined /\ lib.drawData = 2
  /\ phase = "Ready" /\ gstart.inFrame

====
